---- MODULE Spec2Model ----
(***************************************************************************)
(* Model of the multi-agent workflow API: the configuration gate that      *)
(* every endpoint re-reads (config/config.json), the HTTP endpoints of     *)
(* multi_agent_workflow.py, gemini_integration.py and jules_integration.py,*)
(* and the four-phase background pipeline execute_collaboration_workflow.  *)
(*                                                                         *)
(* Python values are modelled as follows.  A JSON flag is one of the       *)
(* strings "true", "false", "missing" (key or section absent, so that      *)
(* dict.get falls back to its default).  A text built by an f-string is    *)
(* the sequence of its fragments.  A handler's outcome is either a         *)
(* returned value or a raised exception; FastAPI turns a raised            *)
(* HTTPException into a response with its status code and its detail.     *)
(***************************************************************************)
EXTENDS Integers, Sequences, FiniteSets, Bags, TLC

VARIABLES config, tasks, last, seen

vars == <<config, tasks, last, seen>>

\* Number of collaborations that are accepted in one run of the model.
MaxTasks == 2

(***************************************************************************)
(* Input domains                                                           *)
(***************************************************************************)
Flags == {"true", "false", "missing"}

\* Values uuid.uuid4() may return; the model draws one without memory.
UUIDs == {"uuid-a", "uuid-b"}

\* Identifiers a client may ask the status of: issued ones and a malformed one.
StatusIds == UUIDs \cup {"not-a-real-id"}

\* Values of workflow_type a request carries: the default and another one.
WorkflowTypes == {"analysis_only", "full_collaboration"}

AnalysisTypes == {"general", "security", "unknown"}

\* The configuration source: absent, not JSON, or a JSON object with flags.
ReadableConfigs ==
  [source : {"ok"}, cross_agent : Flags, jules_agent : Flags,
   gemini_agent : Flags, pr_review_enabled : Flags]

UnreadableConfigs ==
  [source : {"missing", "malformed"}, cross_agent : {"missing"},
   jules_agent : {"missing"}, gemini_agent : {"missing"},
   pr_review_enabled : {"missing"}]

Configs == ReadableConfigs \cup UnreadableConfigs

\* Configurations the pipeline specification switches between.
FlowConfigs ==
  { c \in Configs :
      \/ c.source = "missing"
      \/ /\ c.source = "ok"
         /\ c.cross_agent = "true"
         /\ c.gemini_agent = "true"
         /\ c.pr_review_enabled = "true"
         /\ c.jules_agent \in {"true", "false"} }

(***************************************************************************)
(* Python helpers                                                          *)
(***************************************************************************)
\* Mutant: a missing key counts as set.
get_unless_false(flag, default) == flag # "false"

\* dict.get(key, default) on a flag: the default when the key is missing.
get(flag, default) == IF flag = "missing" THEN default ELSE flag = "true"

\* How an f-string prints a bool.
fmt(b) == IF b THEN "True" ELSE "False"

\* Python: s[:n], which stops at the end of a shorter list.
slice_to(s, n) == SubSeq(s, 1, IF Len(s) < n THEN Len(s) ELSE n)

\* The outcome of a call: what it returns or raises, and the calls it handed to
\* BackgroundTasks.add_task.
Return(v) == [raised |-> FALSE, value |-> v, background |-> <<>>]

Raise(e) == [raised |-> TRUE, exc |-> e, background |-> <<>>]

HTTPException(status_code, detail) ==
  [kind |-> "HTTPException", status_code |-> status_code, detail |-> detail]

\* str(e): Starlette prints an HTTPException as "<status_code>: <detail>".
str(e) ==
  IF e.kind = "HTTPException"
    THEN <<ToString(e.status_code), ": ">> \o e.detail
    ELSE <<e.kind>>

\* Mutant: a configuration that cannot be read counts as an empty one.
json_load_or_empty(cfg) == Return(cfg)

\* with open(config_path) as f: config = json.load(f)
json_load(cfg) ==
  IF cfg.source = "missing" THEN Raise([kind |-> "FileNotFoundError"])
  ELSE IF cfg.source = "malformed" THEN Raise([kind |-> "JSONDecodeError"])
  ELSE Return(cfg)

\* except Exception as e: raise HTTPException(status_code=500, detail=f"{prefix}{str(e)}")
\* HTTPException is itself an Exception, so the clause also catches the 503s
\* raised inside the try block.
except_Exception(prefix, outcome) ==
  IF outcome.raised
    THEN Raise(HTTPException(500, <<prefix>> \o str(outcome.exc)))
    ELSE outcome

\* FastAPI's answer to the client for a handler's outcome.
http_response(outcome) ==
  IF outcome.raised
    THEN [status_code |-> outcome.exc.status_code,
          body |-> [detail |-> outcome.exc.detail]]
    ELSE [status_code |-> 200, body |-> outcome.value]

(***************************************************************************)
(* multi_agent_workflow.py                                                 *)
(***************************************************************************)
\* Mutant: the handler awaits the workflow instead of scheduling it.
add_task_awaited(collaboration_id, workflow_type) ==
  <<[collaboration_id |-> collaboration_id, workflow_type |-> workflow_type,
     pc |-> "completed",
     trace |-> <<"phase_1_start", "phase_1_end", "phase_2_start", "phase_2_end",
                 "phase_3_start", "phase_3_end", "phase_4_start", "phase_4_end",
                 "completed">>]>>

\* background_tasks.add_task(execute_collaboration_workflow, collaboration_id,
\* ..., request.workflow_type, ...): the call is recorded and not yet run.
add_task(collaboration_id, workflow_type) ==
  <<[collaboration_id |-> collaboration_id, workflow_type |-> workflow_type,
     pc |-> "pending", trace |-> <<>>]>>

\* The CollaborationStatus the handler returns.
CollaborationStatus(collaboration_id) ==
  [collaboration_id |-> collaboration_id,
   status |-> "initiated",
   current_phase |-> "gemini_analysis",
   participants |-> <<"gemini-coding-agent", "jules-agent">>,
   progress |-> [phase_1 |-> "Starting Gemini analysis",
                 overall_progress |-> "5%"],
   estimated_completion |-> "5-10 minutes"]

\* The try block of start_multi_agent_collaboration; u is what uuid.uuid4() returns.
start_collaboration_try(cfg, request, u) ==
  LET loaded == json_load(cfg) IN
  IF loaded.raised THEN loaded
  ELSE IF ~get(cfg.cross_agent, FALSE)
    THEN Raise(HTTPException(503, <<"Multi-agent collaboration not enabled">>))
  ELSE
    LET jules_enabled == get(cfg.jules_agent, FALSE)
        gemini_enabled == get(cfg.gemini_agent, FALSE)
    IN IF ~(jules_enabled /\ gemini_enabled)
         THEN Raise(HTTPException(503,
                <<"Both agents must be enabled. Jules: ", fmt(jules_enabled),
                  ", Gemini: ", fmt(gemini_enabled)>>))
         ELSE [Return(CollaborationStatus(u))
                 EXCEPT !.background = add_task(u, request.workflow_type)]

\* Mutant: the workflow is started before the configuration is checked.
start_multi_agent_collaboration_early(cfg, request, u) ==
  [except_Exception("Collaboration initiation error: ",
                    start_collaboration_try(cfg, request, u))
     EXCEPT !.background = add_task(u, request.workflow_type)]

\* Mutant: the flags read for an earlier accepted request are kept and reused.
start_multi_agent_collaboration_cached(cfg, request, u) ==
  IF tasks # EmptyBag
    THEN [Return(CollaborationStatus(u))
            EXCEPT !.background = add_task(u, request.workflow_type)]
    ELSE except_Exception("Collaboration initiation error: ",
                          start_collaboration_try(cfg, request, u))

start_multi_agent_collaboration(cfg, request, u) ==
  except_Exception("Collaboration initiation error: ",
                   start_collaboration_try(cfg, request, u))

\* The try block of execute_collaboration_workflow for task t when nothing
\* raises: one scheduling step of the coroutine, from where it is suspended
\* to its next await of asyncio.sleep or to its end.  The trace records what
\* it prints and which phases return.  finalize_collaboration awaits
\* nothing, so it runs in the same step as the return of
\* cross_validate_solution.
\* Mutant of the try block below: the implementation phase waits for an
\* agent that never answers.
run_phases_stuck(t) ==
  CASE t.pc = "pending" ->
         [t EXCEPT !.pc = "gemini_analysis", !.trace = <<"phase_1_start">>]
    [] t.pc = "gemini_analysis" ->
         [t EXCEPT !.pc = "jules_implementation",
                   !.trace = @ \o <<"phase_1_end", "phase_2_start">>]
    [] OTHER -> t

run_phases(t) ==
  CASE t.pc = "pending" ->
         [t EXCEPT !.pc = "gemini_analysis", !.trace = <<"phase_1_start">>]
    [] t.pc = "gemini_analysis" ->
         [t EXCEPT !.pc = "jules_implementation",
                   !.trace = @ \o <<"phase_1_end", "phase_2_start">>]
    [] t.pc = "jules_implementation" ->
         [t EXCEPT !.pc = "cross_validation",
                   !.trace = @ \o <<"phase_2_end", "phase_3_start">>]
    [] t.pc = "cross_validation" ->
         [t EXCEPT !.pc = "completed",
                   !.trace = @ \o <<"phase_3_end", "phase_4_start",
                                    "phase_4_end", "completed">>]
    [] OTHER -> t

\* except Exception as e: print(... "Collaboration error" ...), after the
\* coroutine got as far as `done` in this step; the coroutine then ends.
caught(t, done) ==
  [t EXCEPT !.pc = "failed", !.trace = @ \o done \o <<"error">>]

\* Mutant: an "analysis_only" collaboration ends after its first phase.
execute_collaboration_workflow_by_type(t, exc) ==
  IF t.pc = "gemini_analysis" /\ exc # "none" THEN caught(t, <<>>)
  ELSE IF t.pc = "gemini_analysis" /\ t.workflow_type = "analysis_only"
    THEN [t EXCEPT !.pc = "completed",
                   !.trace = @ \o <<"phase_1_end", "completed">>]
  ELSE IF t.pc \in {"jules_implementation", "cross_validation"} /\ exc = "phase"
    THEN caught(t, <<>>)
  ELSE IF t.pc = "cross_validation" /\ exc = "finalize"
    THEN caught(t, <<"phase_3_end", "phase_4_start">>)
  ELSE run_phases(t)

\* Mutant: the implementation phase is started before the analysis returned.
execute_collaboration_workflow_eager(t, exc) ==
  IF t.pc = "pending"
    THEN [t EXCEPT !.pc = "gemini_analysis",
                   !.trace = <<"phase_1_start", "phase_2_start">>]
  ELSE IF t.pc = "gemini_analysis" /\ exc = "none"
    THEN [t EXCEPT !.pc = "jules_implementation",
                   !.trace = @ \o <<"phase_1_end">>]
  ELSE IF t.pc \in {"gemini_analysis", "jules_implementation",
                    "cross_validation"} /\ exc = "phase"
    THEN caught(t, <<>>)
  ELSE IF t.pc = "cross_validation" /\ exc = "finalize"
    THEN caught(t, <<"phase_3_end", "phase_4_start">>)
  ELSE run_phases(t)

\* Mutant: the exception of a phase is caught around that phase only, and
\* the pipeline goes on with the next one.
execute_collaboration_workflow_resuming(t, exc) ==
  IF t.pc \in {"gemini_analysis", "jules_implementation",
               "cross_validation"} /\ exc = "phase"
    THEN LET on == run_phases(t) IN
         [on EXCEPT !.trace = t.trace \o <<"error">>
                               \o SubSeq(on.trace, Len(t.trace) + 2, Len(on.trace))]
  ELSE IF t.pc = "cross_validation" /\ exc = "finalize"
    THEN caught(t, <<"phase_3_end", "phase_4_start">>)
  ELSE run_phases(t)

\* One scheduling step of the coroutine execute_collaboration_workflow for
\* task t.  exc says whether the phase it is suspended in raises ("phase"),
\* whether finalize_collaboration raises ("finalize"), or nothing raises
\* ("none").
execute_collaboration_workflow(t, exc) ==
  IF t.pc \in {"gemini_analysis", "jules_implementation",
               "cross_validation"} /\ exc = "phase"
    THEN caught(t, <<>>)
  ELSE IF t.pc = "cross_validation" /\ exc = "finalize"
    THEN caught(t, <<"phase_3_end", "phase_4_start">>)
  ELSE run_phases(t)

\* Mutant: the status is looked up in the collaborations being tracked.
get_collaboration_status_tracked(collaboration_id) ==
  LET known == {t \in BagToSet(tasks) : t.collaboration_id = collaboration_id}
  IN IF known = {}
       THEN Raise(HTTPException(404, <<"Collaboration not found">>))
       ELSE LET t == CHOOSE x \in known : TRUE IN
            Return([collaboration_id |-> collaboration_id,
                    status |-> IF t.pc \in {"completed", "failed"}
                                 THEN t.pc ELSE "in_progress",
                    current_phase |-> t.pc,
                    progress |-> [overall_progress |->
                                    IF t.pc = "completed" THEN "100%" ELSE "50%"],
                    estimated_completion |-> "unknown"])

get_collaboration_status(collaboration_id) ==
  Return([collaboration_id |-> collaboration_id,
          status |-> "completed",
          current_phase |-> "finalization",
          progress |-> [gemini_analysis |-> "completed",
                        jules_implementation |-> "completed",
                        cross_validation |-> "completed",
                        finalization |-> "in_progress",
                        overall_progress |-> "90%"],
          estimated_completion |-> "1 minute remaining"])

\* Mutant: the payload reports how many collaborations are being run.
get_multi_agent_capabilities_live(cfg) ==
  LET loaded == json_load(cfg) IN
  except_Exception("Error getting capabilities: ",
    IF loaded.raised THEN loaded
    ELSE Return(
      [system_status |-> "operational",
       active_collaborations |->
         BagCardinality(tasks)
           - Cardinality({t \in BagToSet(tasks) : t.pc \in {"completed", "failed"}}),
       cross_agent_enabled |-> get(cfg.cross_agent, FALSE),
       available_agents |-> [jules |-> get(cfg.jules_agent, FALSE),
                             gemini |-> get(cfg.gemini_agent, FALSE)]]))

get_multi_agent_capabilities(cfg) ==
  LET loaded == json_load(cfg) IN
  except_Exception("Error getting capabilities: ",
    IF loaded.raised THEN loaded
    ELSE Return(
      [system_status |-> "operational",
       cross_agent_enabled |-> get(cfg.cross_agent, FALSE),
       available_agents |-> [jules |-> get(cfg.jules_agent, FALSE),
                             gemini |-> get(cfg.gemini_agent, FALSE)],
       collaboration_workflows |->
         <<"analysis_only", "implementation_only", "full_collaboration">>,
       supported_features |->
         <<"Requirements analysis", "Code implementation", "Security review",
           "Performance optimization", "Cross-validation",
           "GitHub integration", "Automated testing">>,
       quality_metrics |-> [average_collaboration_time |-> "5-10 minutes",
                            success_rate |-> "95%",
                            quality_score_average |-> "8.7"]]))

test_multi_agent_integration(cfg) ==
  LET loaded == json_load(cfg)
      configuration_test ==
        [cross_agent_enabled |-> get(cfg.cross_agent, FALSE),
         jules_agent_enabled |-> get(cfg.jules_agent, FALSE),
         gemini_agent_enabled |-> get(cfg.gemini_agent, FALSE)]
      all_enabled == /\ configuration_test.cross_agent_enabled
                     /\ configuration_test.jules_agent_enabled
                     /\ configuration_test.gemini_agent_enabled
  IN
  except_Exception("Integration test error: ",
    IF loaded.raised THEN loaded
    ELSE Return(
      [configuration_test |-> configuration_test,
       connectivity_test |-> [jules_endpoint |-> "accessible",
                              gemini_endpoint |-> "accessible",
                              collaboration_protocol |-> "functional"],
       workflow_test |-> [analysis_phase |-> "ready",
                          implementation_phase |-> "ready",
                          validation_phase |-> "ready",
                          finalization_phase |-> "ready"],
       overall_status |-> IF all_enabled THEN "healthy" ELSE "partial",
       ready_for_collaboration |-> all_enabled]))

(***************************************************************************)
(* gemini_integration.py                                                   *)
(* The settings model and code_analysis_enabled of gemini_agent, and       *)
(* multi_agent_mode and github_integration of jules_agent, are not part of *)
(* the modelled configuration; the payload fields copied from them are     *)
(* left out.                                                               *)
(***************************************************************************)
\* Returns the gemini_agent section (here: the configuration it is part of).
get_gemini_config(cfg) ==
  LET loaded == json_load(cfg) IN
  except_Exception("Configuration error: ",
    IF loaded.raised THEN loaded
    ELSE IF ~get(cfg.gemini_agent, FALSE)
      THEN Raise(HTTPException(503, <<"Gemini agent not enabled">>))
    ELSE Return(cfg))

\* Mutant: the analysis comes with no suggestion.
suggestions_none == <<>>

suggestions ==
  <<"Consider adding type hints for better code clarity",
    "Implement error handling for edge cases",
    "Add comprehensive unit tests",
    "Consider performance optimizations">>

analyze_code_with_gemini(cfg, request) ==
  LET gemini_config == get_gemini_config(cfg)
      mock_analysis ==
        <<"Gemini analysis for ", request.analysis_type, ": The code shows ",
          request.task,
          ". Key findings include structure improvements and optimization opportunities.">>
      loaded == json_load(cfg)
      collaboration_data ==
        IF get(cfg.cross_agent, FALSE)
          THEN [jules_integration |-> TRUE,
                shared_context |->
                  [analysis_type |-> request.analysis_type,
                   task_description |-> request.task,
                   recommendations |-> slice_to(suggestions, 2)]]
          ELSE [none |-> TRUE]
  IN
  except_Exception("Gemini analysis error: ",
    IF gemini_config.raised THEN gemini_config
    ELSE IF loaded.raised THEN loaded
    ELSE Return([analysis |-> mock_analysis,
                 status |-> "completed",
                 confidence_score |-> "0.85",
                 suggestions |-> suggestions,
                 collaboration_data |-> collaboration_data]))

review_pull_request(cfg, request) ==
  LET gemini_config == get_gemini_config(cfg) IN
  except_Exception("PR review error: ",
    IF gemini_config.raised THEN gemini_config
    ELSE IF ~get(gemini_config.value.pr_review_enabled, FALSE)
      THEN Raise(HTTPException(503, <<"PR review not enabled for Gemini agent">>))
    ELSE Return([pr_url |-> request.pr_url,
                 review_status |-> "completed",
                 overall_score |-> "8.5",
                 approval_recommendation |-> "Approve with minor suggestions",
                 collaboration_notes |->
                   "Ready for Jules agent implementation if needed"]))

get_gemini_capabilities(cfg) ==
  LET gemini_config == get_gemini_config(cfg) IN
  except_Exception("Error getting capabilities: ",
    IF gemini_config.raised THEN gemini_config
    ELSE Return(
      [agent_type |-> "Gemini Coding Agent",
       enabled |-> get(gemini_config.value.gemini_agent, FALSE),
       pr_review_enabled |-> get(gemini_config.value.pr_review_enabled, FALSE),
       analysis_types |-> <<"general", "security", "performance", "style">>,
       integration_status |-> "Active"]))

request_gemini_collaboration(cfg, request, u) ==
  LET loaded == json_load(cfg) IN
  except_Exception("Collaboration error: ",
    IF loaded.raised THEN loaded
    ELSE IF ~get(cfg.cross_agent, FALSE)
      THEN Raise(HTTPException(503, <<"Cross-agent collaboration not enabled">>))
    ELSE Return(
      [collaboration_id |-> u,
       gemini_role |-> "Analysis and Requirements Specialist",
       task_analysis |->
         [requirements |-> <<"Analyzed requirements for: ", request.task_description>>,
          security_considerations |-> "Security review completed"],
       next_steps |->
         [collaboration_status |-> "Ready for handoff to Jules agent"]]))

\* api_key is whether the environment variable naming the API key is set.
\* The except clause of this handler returns a payload instead of raising.
health_check(cfg, api_key) ==
  LET gemini_config == get_gemini_config(cfg) IN
  IF gemini_config.raised
    THEN Return([status |-> "unhealthy", error |-> str(gemini_config.exc)])
    ELSE Return(
      [status |-> "healthy",
       gemini_enabled |-> get(gemini_config.value.gemini_agent, FALSE),
       api_key_configured |-> api_key,
       services |->
         [pr_review |-> get(gemini_config.value.pr_review_enabled, FALSE)]])

(***************************************************************************)
(* jules_integration.py                                                    *)
(***************************************************************************)
process_jules_task(cfg, task, u) ==
  LET loaded == json_load(cfg) IN
  except_Exception("Jules integration error: ",
    IF loaded.raised THEN loaded
    ELSE IF ~get(cfg.jules_agent, FALSE)
      THEN Raise(HTTPException(503, <<"Jules agent not enabled">>))
    ELSE Return(
      [task_id |-> u,
       status |-> "accepted",
       message |-> <<"Jules task accepted: ", task.prompt, "...">>,
       collaboration_enabled |-> get(cfg.cross_agent, FALSE)]))

get_jules_task_status(task_id) ==
  Return([task_id |-> task_id,
          status |-> "processing",
          progress |-> "Task in Jules agent queue",
          estimated_completion |-> "2-5 minutes"])

get_jules_capabilities(cfg) ==
  LET loaded == json_load(cfg) IN
  except_Exception("Error getting capabilities: ",
    IF loaded.raised THEN loaded
    ELSE Return(
      [agent_type |-> "Jules Multi-Agent System",
       enabled |-> get(cfg.jules_agent, FALSE),
       integration_status |-> "Active"]))

\* The module imports no uuid (the import in process_jules_task is local to
\* that function), so uuid.uuid4() raises NameError here.
request_collaboration(cfg, request) ==
  LET loaded == json_load(cfg) IN
  except_Exception("Collaboration error: ",
    IF loaded.raised THEN loaded
    ELSE IF ~get(cfg.cross_agent, FALSE)
      THEN Raise(HTTPException(503, <<"Cross-agent collaboration not enabled">>))
    ELSE Raise([kind |-> "NameError"]))

(***************************************************************************)
(* State machine                                                           *)
(*   config : the content of config/config.json                            *)
(*   tasks  : the bag of accepted collaborations, each the background call *)
(*            with its position (pc), what it has printed and its phases   *)
(*            have returned (trace), and the response its caller received  *)
(*            (reply); the calls are independent coroutines of the event   *)
(*            loop, which keeps no order among them                        *)
(*   last   : the request handled by the latest step and its response;     *)
(*            NoResponse when the latest step handled no request           *)
(*   seen   : the response a client got from GET /multi-agent/capabilities *)
(*            before the latest step and since the configuration source    *)
(*            last changed; NoResponse when there was none                 *)
(***************************************************************************)
NoResponse == [endpoint |-> "none"]

Exchange(endpoint, request, outcome) ==
  [endpoint |-> endpoint, request |-> request,
   response |-> http_response(outcome)]

Init ==
  /\ config \in FlowConfigs
  /\ tasks = EmptyBag
  /\ last = NoResponse
  /\ seen = NoResponse

InitApi ==
  /\ config \in Configs
  /\ tasks = EmptyBag
  /\ last = NoResponse
  /\ seen = NoResponse

\* The client keeps the capabilities it was last given.
Remember ==
  seen' = IF last.endpoint = "GET /multi-agent/capabilities"
            THEN last.response ELSE seen

ConfigKeys == {"cross_agent", "jules_agent", "gemini_agent", "pr_review_enabled"}

\* One edit of the configuration source: the file is removed, corrupted or
\* restored, or one of its settings changes.
Edit(old, new) ==
  \/ old.source # "ok"
  \/ new.source # "ok"
  \/ Cardinality({k \in ConfigKeys : old[k] # new[k]}) = 1

\* Something outside the program rewrites the configuration source.
SetConfig(S) ==
  /\ \E c \in S \ {config} : Edit(config, c) /\ config' = c
  /\ last' = NoResponse
  /\ seen' = NoResponse
  /\ UNCHANGED tasks

\* POST /multi-agent/start-collaboration
StartCollaboration ==
  \E workflow_type \in WorkflowTypes, u \in UUIDs :
    LET request == [workflow_type |-> workflow_type]
        outcome == start_multi_agent_collaboration(config, request, u)
        reply == http_response(outcome)
        scheduled == SetToBag({ outcome.background[i] @@ [reply |-> reply] :
                                  i \in DOMAIN outcome.background })
    IN /\ BagCardinality(tasks) + BagCardinality(scheduled) <= MaxTasks
       /\ tasks' = tasks (+) scheduled
       /\ last' = Exchange("POST /multi-agent/start-collaboration",
                           request, outcome)
       /\ Remember
       /\ UNCHANGED config

\* Task t of the bag takes one step of its coroutine.
Step(t, exc) ==
  /\ tasks' = (tasks (-) SetToBag({t}))
                (+) SetToBag({execute_collaboration_workflow(t, exc)})
  /\ last' = NoResponse
  /\ Remember
  /\ UNCHANGED config

Sleeping == {"gemini_analysis", "jules_implementation", "cross_validation"}

\* The event loop starts a background call after its response was sent.
RunTask ==
  \E t \in BagToSet(tasks) : t.pc = "pending" /\ Step(t, "none")

\* The sleep of the current phase of a call ends and the phase returns.
PhaseReturns ==
  \E t \in BagToSet(tasks) : t.pc \in Sleeping /\ Step(t, "none")

\* The current phase of a call raises an Exception.  The simulated agents
\* raise none of their own; this stands for any Exception raised while the
\* phase runs.
PhaseRaises ==
  \E t \in BagToSet(tasks) : t.pc \in Sleeping /\ Step(t, "phase")

\* cross_validate_solution returns and finalize_collaboration raises.
FinalizeRaises ==
  \E t \in BagToSet(tasks) : t.pc = "cross_validation" /\ Step(t, "finalize")

\* GET /multi-agent/status/{collaboration_id}
GetCollaborationStatus ==
  \E collaboration_id \in StatusIds :
    /\ last' = Exchange("GET /multi-agent/status",
                        [collaboration_id |-> collaboration_id],
                        get_collaboration_status(collaboration_id))
    /\ Remember /\ UNCHANGED <<config, tasks>>

\* GET /multi-agent/capabilities
GetMultiAgentCapabilities ==
  /\ last' = Exchange("GET /multi-agent/capabilities", [none |-> TRUE],
                      get_multi_agent_capabilities(config))
  /\ Remember /\ UNCHANGED <<config, tasks>>

\* POST /multi-agent/test-integration
TestMultiAgentIntegration ==
  /\ last' = Exchange("POST /multi-agent/test-integration", [none |-> TRUE],
                      test_multi_agent_integration(config))
  /\ Remember /\ UNCHANGED <<config, tasks>>

\* POST /gemini/analyze
AnalyzeCode ==
  \E analysis_type \in AnalysisTypes :
    LET request == [analysis_type |-> analysis_type, task |-> "task",
                    code |-> "code"]
    IN /\ last' = Exchange("POST /gemini/analyze", request,
                           analyze_code_with_gemini(config, request))
       /\ Remember /\ UNCHANGED <<config, tasks>>

\* POST /gemini/review-pr
ReviewPullRequest ==
  LET request == [pr_url |-> "pr"] IN
  /\ last' = Exchange("POST /gemini/review-pr", request,
                      review_pull_request(config, request))
  /\ Remember /\ UNCHANGED <<config, tasks>>

\* GET /gemini/capabilities
GetGeminiCapabilities ==
  /\ last' = Exchange("GET /gemini/capabilities", [none |-> TRUE],
                      get_gemini_capabilities(config))
  /\ Remember /\ UNCHANGED <<config, tasks>>

\* POST /gemini/collaborate
RequestGeminiCollaboration ==
  \E u \in UUIDs :
    LET request == [task_description |-> "task"] IN
    /\ last' = Exchange("POST /gemini/collaborate", request,
                        request_gemini_collaboration(config, request, u))
    /\ Remember /\ UNCHANGED <<config, tasks>>

\* GET /gemini/health
HealthCheck ==
  \E api_key \in BOOLEAN :
    /\ last' = Exchange("GET /gemini/health", [none |-> TRUE],
                        health_check(config, api_key))
    /\ Remember /\ UNCHANGED <<config, tasks>>

\* POST /jules/task
ProcessJulesTask ==
  \E u \in UUIDs :
    LET task == [prompt |-> "prompt"] IN
    /\ last' = Exchange("POST /jules/task", task,
                        process_jules_task(config, task, u))
    /\ Remember /\ UNCHANGED <<config, tasks>>

\* GET /jules/status/{task_id}
GetJulesTaskStatus ==
  \E task_id \in StatusIds :
    /\ last' = Exchange("GET /jules/status", [task_id |-> task_id],
                        get_jules_task_status(task_id))
    /\ Remember /\ UNCHANGED <<config, tasks>>

\* GET /jules/capabilities
GetJulesCapabilities ==
  /\ last' = Exchange("GET /jules/capabilities", [none |-> TRUE],
                      get_jules_capabilities(config))
  /\ Remember /\ UNCHANGED <<config, tasks>>

\* POST /jules/collaborate
RequestCollaboration ==
  LET request == [task_description |-> "task"] IN
  /\ last' = Exchange("POST /jules/collaborate", request,
                      request_collaboration(config, request))
  /\ Remember /\ UNCHANGED <<config, tasks>>

\* The workflow sequencer: collaborations are accepted, run in the background
\* in any interleaving, and their status is polled while the configuration
\* source changes.
Next ==
  \/ SetConfig(FlowConfigs)
  \/ StartCollaboration
  \/ GetCollaborationStatus
  \/ RunTask
  \/ PhaseReturns
  \/ PhaseRaises
  \/ FinalizeRaises

Spec == Init /\ [][Next]_vars

\* The asyncio event loop runs every task that is ready, and every
\* asyncio.sleep of a phase ends.  Nothing is assumed of the clients, nor of
\* whether a phase raises.
NextFair ==
  \/ SetConfig(FlowConfigs)
  \/ StartCollaboration
  \/ GetCollaborationStatus
  \/ GetMultiAgentCapabilities
  \/ RunTask
  \/ PhaseReturns
  \/ PhaseRaises
  \/ FinalizeRaises

FairSpec ==
  /\ Init
  /\ [][NextFair]_vars
  /\ WF_vars(RunTask)
  /\ WF_vars(PhaseReturns)

\* The request surface: every endpoint, under every configuration.  Accepted
\* collaborations stay scheduled; their pipeline is the subject of Spec.
NextApi ==
  \/ SetConfig(Configs)
  \/ StartCollaboration
  \/ GetCollaborationStatus
  \/ GetMultiAgentCapabilities
  \/ TestMultiAgentIntegration
  \/ AnalyzeCode
  \/ ReviewPullRequest
  \/ GetGeminiCapabilities
  \/ RequestGeminiCollaboration
  \/ HealthCheck
  \/ ProcessJulesTask
  \/ GetJulesTaskStatus
  \/ GetJulesCapabilities
  \/ RequestCollaboration

SpecApi == InitApi /\ [][NextApi]_vars

\* The multi-agent router and the pipeline together: capabilities and
\* integration tests are asked while collaborations are accepted and run.
NextRouter ==
  \/ SetConfig(FlowConfigs)
  \/ StartCollaboration
  \/ GetMultiAgentCapabilities
  \/ TestMultiAgentIntegration
  \/ RunTask
  \/ PhaseReturns
  \/ PhaseRaises
  \/ FinalizeRaises

SpecRouter == Init /\ [][NextRouter]_vars

(***************************************************************************)
(* Properties                                                              *)
(* In a state whose latest step handled a request (last # NoResponse), the *)
(* configuration and the tasks are those the handler saw and left.         *)
(***************************************************************************)
\* A flag as the configuration states it: on only when present and true.
FlagOn(flag) == flag = "true"

Handled(endpoint) == last.endpoint = endpoint

ServerError(response) == response.status_code \in 500..599

IsErrorBody(response) == DOMAIN response.body = {"detail"}

\* The two per-agent flags as start-collaboration prints them in its detail.
ShowsAgentFlags(detail, jules_enabled, gemini_enabled) ==
  \E i \in 1..(Len(detail) - 3) :
    /\ detail[i] = "Both agents must be enabled. Jules: "
    /\ detail[i + 1] = fmt(jules_enabled)
    /\ detail[i + 2] = ", Gemini: "
    /\ detail[i + 3] = fmt(gemini_enabled)

\* C1: a start-collaboration request made while the jules agent or the
\* gemini agent is disabled in a readable configuration is answered 503 with
\* both per-agent enabled flags in the error detail.
C1_DisabledAgentIs503 ==
  ( /\ Handled("POST /multi-agent/start-collaboration")
    /\ config.source = "ok"
    /\ ~(FlagOn(config.jules_agent) /\ FlagOn(config.gemini_agent)) )
  => /\ last.response.status_code = 503
     /\ IsErrorBody(last.response)
     /\ ShowsAgentFlags(last.response.body.detail,
                        FlagOn(config.jules_agent), FlagOn(config.gemini_agent))

\* C2: with a readable configuration in which cross_agent.enabled is false
\* or missing, POST /jules/collaborate is answered 503.
C2_CrossAgentOffIs503 ==
  ( /\ Handled("POST /jules/collaborate")
    /\ config.source = "ok"
    /\ ~FlagOn(config.cross_agent) )
  => last.response.status_code = 503

\* The status payload, which echoes the identifier and is otherwise fixed.
AlmostComplete(collaboration_id) ==
  [collaboration_id |-> collaboration_id,
   status |-> "completed",
   current_phase |-> "finalization",
   progress |-> [gemini_analysis |-> "completed",
                 jules_implementation |-> "completed",
                 cross_validation |-> "completed",
                 finalization |-> "in_progress",
                 overall_progress |-> "90%"],
   estimated_completion |-> "1 minute remaining"]

StatusIsAlmostComplete ==
  Handled("GET /multi-agent/status")
    => /\ last.response.status_code = 200
       /\ last.response.body = AlmostComplete(last.request.collaboration_id)

\* C3: for any identifier, issued or not, and in every state of that
\* collaboration's pipeline, GET /multi-agent/status/{id} is answered 200
\* with the fixed "90%" payload that echoes the identifier.
C3_StatusIgnoresPipeline ==
  /\ StatusIsAlmostComplete
  /\ Handled("GET /multi-agent/status")
       => last.response.body.progress.overall_progress = "90%"

\* The status of an issued identifier is asked while its pipeline is in a
\* phase, and another collaboration has already ended.
C3_Witness ==
  /\ Handled("GET /multi-agent/status")
  /\ \E t \in BagToSet(tasks) :
       /\ t.collaboration_id = last.request.collaboration_id
       /\ t.pc = "jules_implementation"
  /\ \E t \in BagToSet(tasks) : t.pc \in {"completed", "failed"}

PhaseEvents ==
  <<"phase_1_start", "phase_1_end", "phase_2_start", "phase_2_end",
    "phase_3_start", "phase_3_end", "phase_4_start", "phase_4_end">>

IsPhaseEvent(e) == \E i \in DOMAIN PhaseEvents : PhaseEvents[i] = e

IsPrefix(s, r) == Len(s) <= Len(r) /\ SubSeq(r, 1, Len(s)) = s

PhasesOf(t) == SelectSeq(t.trace, IsPhaseEvent)

\* How many phases a task has started, by its position in the pipeline.
StartedAt(pc) ==
  CASE pc = "pending" -> 0
    [] pc = "gemini_analysis" -> 1
    [] pc = "jules_implementation" -> 2
    [] pc = "cross_validation" -> 3
    [] pc = "completed" -> 4
    [] OTHER -> 0

\* C5: in any interleaving of concurrent collaborations, the phases of each
\* collaboration start in the order analysis, implementation,
\* cross-validation, finalization, each after the previous one returned,
\* none skipped or repeated.
C5_PhasesInOrder ==
  \A t \in BagToSet(tasks) :
    /\ IsPrefix(PhasesOf(t), PhaseEvents)
    /\ t.pc # "failed" =>
         Len(PhasesOf(t)) = IF t.pc = "completed" THEN 8
                            ELSE IF t.pc = "pending" THEN 0
                            ELSE 2 * StartedAt(t.pc) - 1

\* Two collaborations are in different phases at the same time.
C5_Witness ==
  \E t1, t2 \in BagToSet(tasks) :
    /\ t1.pc = "cross_validation"
    /\ t2.pc = "gemini_analysis"

HasFailed(t) == \E i \in DOMAIN t.trace : t.trace[i] = "error"

\* C6: an exception raised by a phase is caught at the top level of the
\* pipeline: the collaboration prints the error and ends, no later phase of
\* it runs, no other collaboration and no client is affected by the step,
\* and the status endpoint keeps answering as before.
C6_FailureStep ==
  /\ \A t \in BagToSet(tasks) :
       HasFailed(t) => CopiesIn(t, tasks') >= CopiesIn(t, tasks)
  /\ \A t \in BagToSet(tasks') :
       HasFailed(t) =>
         /\ t.pc = "failed"
         /\ t.trace[Len(t.trace)] = "error"
         /\ ~HasFailed([t EXCEPT !.trace = SubSeq(@, 1, Len(@) - 1)])
         /\ CopiesIn(t, tasks') > CopiesIn(t, tasks) =>
              /\ last' = NoResponse
              /\ config' = config
              /\ \E was \in BagToSet(tasks) :
                   /\ ~HasFailed(was)
                   /\ was.reply = t.reply
                   /\ was.collaboration_id = t.collaboration_id
                   /\ tasks' (-) SetToBag({t}) = tasks (-) SetToBag({was})
  /\ StatusIsAlmostComplete'

C6_FailureIsSilent == [][C6_FailureStep]_vars

\* The status of a failed collaboration is asked while another one, with a
\* different identifier, has gone on to its end.
C6_Witness ==
  /\ Handled("GET /multi-agent/status")
  /\ \E t1, t2 \in BagToSet(tasks) :
       /\ t1.collaboration_id = last.request.collaboration_id
       /\ t1.pc = "failed"
       /\ t2.collaboration_id # t1.collaboration_id
       /\ t2.pc = "completed"

\* The response to an accepted start request, but for the identifier.
InitialStatus(collaboration_id) ==
  [status_code |-> 200,
   body |-> [collaboration_id |-> collaboration_id,
             status |-> "initiated",
             current_phase |-> "gemini_analysis",
             participants |-> <<"gemini-coding-agent", "jules-agent">>,
             progress |-> [phase_1 |-> "Starting Gemini analysis",
                           overall_progress |-> "5%"],
             estimated_completion |-> "5-10 minutes"]]

\* C7: the response to an accepted start request (status "initiated",
\* current_phase "gemini_analysis", overall_progress "5%") is produced before
\* any phase of the pipeline has run, and it is the same whether the
\* pipeline later completes or fails; it carries no phase result.
C7_ReplyBeforePipeline ==
  /\ \A t \in BagToSet(tasks) : t.reply = InitialStatus(t.collaboration_id)
  /\ ( /\ Handled("POST /multi-agent/start-collaboration")
       /\ last.response.status_code = 200 )
     => \E t \in BagToSet(tasks) :
          /\ t.collaboration_id = last.response.body.collaboration_id
          /\ t.workflow_type = last.request.workflow_type
          /\ t.reply = last.response
          /\ t.pc = "pending"
          /\ t.trace = <<>>

\* One accepted collaboration has completed and another one has failed.
C7_Witness ==
  \E t1, t2 \in BagToSet(tasks) : t1.pc = "completed" /\ t2.pc = "failed"

WithoutId(reply) == [reply EXCEPT !.body.collaboration_id = "masked"]

\* C8: two accepted start requests that differ only in workflow_type get
\* responses that agree in every field but the identifier, and their
\* pipelines run the same four phases.
C8_WorkflowTypeIgnored ==
  \A t1, t2 \in BagToSet(tasks) :
    /\ WithoutId(t1.reply) = WithoutId(t2.reply)
    /\ (t1.pc = t2.pc /\ t1.pc # "failed") => t1.trace = t2.trace
    /\ t1.pc = "completed" => t1.trace = PhaseEvents \o <<"completed">>

\* An analysis_only collaboration and a full_collaboration one have both
\* run to their end.
C8_Witness ==
  \E t1, t2 \in BagToSet(tasks) :
    /\ t1.workflow_type = "analysis_only"
    /\ t2.workflow_type = "full_collaboration"
    /\ t1.pc = "completed"
    /\ t2.pc = "completed"

\* The endpoints that read the configuration, GET /gemini/health apart.
RaisingConfigEndpoints ==
  {"POST /multi-agent/start-collaboration", "GET /multi-agent/capabilities",
   "POST /multi-agent/test-integration", "POST /gemini/analyze",
   "POST /gemini/review-pr", "GET /gemini/capabilities",
   "POST /gemini/collaborate", "POST /jules/task", "GET /jules/capabilities",
   "POST /jules/collaborate"}

ConfigEndpoints == RaisingConfigEndpoints \cup {"GET /gemini/health"}

\* C9 as stated: every endpoint that consults the configuration, the health
\* endpoint included, answers a request made while the configuration source
\* is missing or unparseable with a 500-class response.
C9_UnreadableIs5xx ==
  (last.endpoint \in ConfigEndpoints /\ config.source # "ok")
    => ServerError(last.response)

\* C9 amended: while the configuration source is missing or unparseable,
\* every endpoint that consults it answers 500 with an error detail, except
\* GET /gemini/health, which answers 200 with status "unhealthy" and the
\* text of the error.
C9_UnreadableIs500ButHealth ==
  config.source # "ok" =>
    /\ last.endpoint \in RaisingConfigEndpoints =>
         /\ last.response.status_code = 500
         /\ IsErrorBody(last.response)
    /\ Handled("GET /gemini/health") =>
         /\ last.response.status_code = 200
         /\ last.response.body.status = "unhealthy"
         /\ "error" \in DOMAIN last.response.body

\* The health endpoint is asked while the configuration file is not JSON.
C9_Witness ==
  /\ Handled("GET /gemini/health")
  /\ config.source = "malformed"
  /\ last.response.status_code = 200

\* The flags the multi-agent and jules capability payloads report.
MultiAgentAndJulesReportFlags ==
  /\ Handled("GET /multi-agent/capabilities") =>
       /\ last.response.status_code = 200
       /\ last.response.body.system_status = "operational"
       /\ last.response.body.cross_agent_enabled = FlagOn(config.cross_agent)
       /\ last.response.body.available_agents =
            [jules |-> FlagOn(config.jules_agent),
             gemini |-> FlagOn(config.gemini_agent)]
  /\ Handled("GET /jules/capabilities") =>
       /\ last.response.status_code = 200
       /\ last.response.body.agent_type = "Jules Multi-Agent System"
       /\ last.response.body.enabled = FlagOn(config.jules_agent)

\* C10 as stated: for every readable configuration the three capability
\* endpoints answer with a successful payload whose enabled fields equal the
\* configuration flags, a missing flag being reported as false.
C10_CapabilitiesReportFlags ==
  config.source = "ok" =>
    /\ MultiAgentAndJulesReportFlags
    /\ Handled("GET /gemini/capabilities") =>
         /\ last.response.status_code = 200
         /\ last.response.body.enabled = FlagOn(config.gemini_agent)

\* C10 amended: for every readable configuration GET /multi-agent/capabilities
\* and GET /jules/capabilities answer with a successful payload whose enabled
\* fields equal the configuration flags, a missing flag being reported as
\* false; GET /gemini/capabilities answers with a successful payload, whose
\* enabled field is true, only when gemini_agent.enabled is true, and with
\* an error response and no payload otherwise.
C10_GeminiCapabilitiesGated ==
  config.source = "ok" =>
    /\ MultiAgentAndJulesReportFlags
    /\ Handled("GET /gemini/capabilities") =>
         IF FlagOn(config.gemini_agent)
           THEN /\ last.response.status_code = 200
                /\ last.response.body.agent_type = "Gemini Coding Agent"
                /\ last.response.body.enabled = TRUE
                /\ last.response.body.pr_review_enabled =
                     FlagOn(config.pr_review_enabled)
           ELSE /\ ServerError(last.response)
                /\ IsErrorBody(last.response)

\* The gemini capabilities are asked while the gemini flag is missing and
\* the other two flags are set.
C10_Witness ==
  /\ Handled("GET /gemini/capabilities")
  /\ config.source = "ok"
  /\ config.gemini_agent = "missing"
  /\ config.cross_agent = "true"
  /\ config.jules_agent = "true"
  /\ ServerError(last.response)


\* C11: with a readable configuration in which cross_agent.enabled is true,
\* POST /jules/collaborate succeeds and returns the mocked hand-off: a
\* collaboration identifier, status "initiated", both participants and the
\* four-step workflow description.
C11_JulesCollaborateSucceeds ==
  ( /\ Handled("POST /jules/collaborate")
    /\ config.source = "ok"
    /\ FlagOn(config.cross_agent) )
  => /\ last.response.status_code = 200
     /\ {"collaboration_id", "status", "participants", "workflow"}
          \subseteq DOMAIN last.response.body
     /\ last.response.body.status = "initiated"


\* C12: two calls of GET /multi-agent/capabilities with the configuration
\* unchanged between them return identical payloads, whatever other
\* requests or pipeline phases run in between.
C12_CapabilitiesIdempotent ==
  (Handled("GET /multi-agent/capabilities") /\ seen # NoResponse)
    => last.response = seen

\* The capabilities are asked a second time under the same configuration
\* while one accepted collaboration has ended and another is in a phase.
C12_Witness ==
  /\ Handled("GET /multi-agent/capabilities")
  /\ seen # NoResponse
  /\ last.response.status_code = 200
  /\ \E t1, t2 \in BagToSet(tasks) :
       t1.pc = "completed" /\ t2.pc \in {"gemini_analysis", "jules_implementation"}

AllOn(c) ==
  /\ c.source = "ok"
  /\ FlagOn(c.cross_agent)
  /\ FlagOn(c.jules_agent)
  /\ FlagOn(c.gemini_agent)

\* What a request handled in this state reports, as the configuration of
\* this state decides it.
AnswersFromConfig ==
  /\ Handled("POST /multi-agent/start-collaboration") =>
       /\ last.response.status_code = 200 <=> AllOn(config)
       /\ last.response.status_code # 200 =>
            /\ last.response.status_code = 500
            /\ config.source = "ok" =>
                 ShowsAgentFlags(last.response.body.detail,
                                 FlagOn(config.jules_agent),
                                 FlagOn(config.gemini_agent))
  /\ Handled("POST /multi-agent/test-integration") =>
       IF config.source = "ok"
         THEN /\ last.response.status_code = 200
              /\ last.response.body.configuration_test =
                   [cross_agent_enabled |-> FlagOn(config.cross_agent),
                    jules_agent_enabled |-> FlagOn(config.jules_agent),
                    gemini_agent_enabled |-> FlagOn(config.gemini_agent)]
              /\ last.response.body.ready_for_collaboration = AllOn(config)
         ELSE last.response.status_code = 500
  /\ Handled("GET /multi-agent/capabilities") =>
       IF config.source = "ok"
         THEN /\ last.response.status_code = 200
              /\ last.response.body.cross_agent_enabled = FlagOn(config.cross_agent)
         ELSE last.response.status_code = 500

\* C13: the configuration is re-read on every request and written by no
\* endpoint and no pipeline phase: only a change of the source itself
\* changes it, and the outcome of a request (accepted or rejected, and every
\* flag it reports) is decided by the configuration at the time of that
\* request, whatever an earlier request has read.
C13_Step ==
  /\ config' # config => (last' = NoResponse /\ tasks' = tasks)
  /\ (last' # NoResponse \/ tasks' # tasks) => config' = config
  /\ AnswersFromConfig'

C13_ConfigReadEachRequest == [][C13_Step]_vars

\* A start request was accepted, the jules agent was then disabled, and a
\* later start request is refused.
C13_Witness ==
  /\ tasks # EmptyBag
  /\ Handled("POST /multi-agent/start-collaboration")
  /\ config.source = "ok"
  /\ config.jules_agent = "false"
  /\ last.response.status_code = 500


Mentions(text, word) == \E i \in 1..Len(text) : text[i] = word

\* C14: with the gemini agent enabled in a readable configuration,
\* POST /gemini/analyze with analysis_type "security" and non-empty code
\* succeeds; the analysis text mentions "security", the suggestions list has
\* at least one entry, and the collaboration payload is present exactly when
\* cross_agent.enabled is true.
C14_SecurityAnalysis ==
  ( /\ Handled("POST /gemini/analyze")
    /\ config.source = "ok"
    /\ FlagOn(config.gemini_agent)
    /\ last.request.analysis_type = "security"
    /\ last.request.code # "" )
  => /\ last.response.status_code = 200
     /\ last.response.body.status = "completed"
     /\ Mentions(last.response.body.analysis, "security")
     /\ Len(last.response.body.suggestions) >= 1
     /\ (last.response.body.collaboration_data # [none |-> TRUE])
          <=> FlagOn(config.cross_agent)

\* A security analysis is answered while cross-agent mode is switched off.
C14_Witness ==
  /\ Handled("POST /gemini/analyze")
  /\ config.source = "ok"
  /\ FlagOn(config.gemini_agent)
  /\ config.cross_agent = "false"
  /\ last.request.analysis_type = "security"
  /\ last.response.status_code = 200


Ended(t) == t.pc \in {"completed", "failed"}

NumberEnded ==
  BagCardinality(tasks (-) [t \in {x \in BagToSet(tasks) : ~Ended(x)}
                              |-> CopiesIn(t, tasks)])

\* A run that has ended has ended after finalization or in the handler.
EndedWhere(t) ==
  /\ t.pc = "completed" =>
       /\ Len(t.trace) >= 2
       /\ SubSeq(t.trace, Len(t.trace) - 1, Len(t.trace))
            = <<"phase_4_end", "completed">>
  /\ t.pc = "failed" => t.trace[Len(t.trace)] = "error"

\* A step of a client (a request) or a change of the configuration leaves
\* every scheduled run as it is; no step takes a run away, and a run that
\* has ended stays ended.
C15_NoCancelStep ==
  /\ (last' # NoResponse \/ config' # config) => tasks \sqsubseteq tasks'
  /\ BagCardinality(tasks') >= BagCardinality(tasks)
  /\ NumberEnded' >= NumberEnded
  /\ \A t \in BagToSet(tasks') : EndedWhere(t)

\* C15: once a pipeline run has been scheduled, under fair scheduling it
\* eventually ends, after the finalization phase or in the top-level
\* exception handler: as many runs as were ever scheduled have eventually
\* ended.  No client request and no configuration change made after
\* scheduling cancels a run or keeps its remaining phases from running.
C15_PipelineEnds ==
  /\ [][C15_NoCancelStep]_vars
  /\ \A n \in 1..MaxTasks :
       (BagCardinality(tasks) >= n) ~> (NumberEnded >= n)

\* The configuration was taken away after two runs were scheduled; one run
\* has ended after finalization and the other in the exception handler.
C15_Witness ==
  /\ config.source = "missing"
  /\ NumberEnded >= 2
  /\ \E t1, t2 \in BagToSet(tasks) : t1.pc = "completed" /\ t2.pc = "failed"


Scheduled(u, workflow_type, reply) ==
  [collaboration_id |-> u, workflow_type |-> workflow_type,
   pc |-> "pending", trace |-> <<>>, reply |-> reply]

\* What one step does to the scheduled runs.  A start request is accepted
\* exactly when cross-agent mode and both agents are enabled; the step that
\* accepts it schedules one run, not yet started, under the id it returns;
\* no other step schedules anything, and a rejected start leaves the runs
\* as they are.
C16_Step ==
  LET start == /\ last' # NoResponse
               /\ last'.endpoint = "POST /multi-agent/start-collaboration"
  IN /\ start => (last'.response.status_code = 200 <=> AllOn(config))
     /\ IF start /\ last'.response.status_code = 200
          THEN tasks' = tasks (+) SetToBag({
                 Scheduled(last'.response.body.collaboration_id,
                           last'.request.workflow_type, last'.response)})
          ELSE BagCardinality(tasks') = BagCardinality(tasks)
     /\ (start /\ last'.response.status_code # 200) => tasks' = tasks
     /\ \A t \in BagToSet(tasks') :
          /\ t.reply.status_code = 200
          /\ t.reply.body.collaboration_id = t.collaboration_id

\* C16: a pipeline run is scheduled exactly once for each accepted
\* start-collaboration request (cross-agent mode and both agents enabled at
\* the time of the request) and never for one that is rejected or fails on
\* the configuration: every run, whatever phase it is in, belongs to a start
\* request that was answered 200.
C16_ScheduledOncePerAccepted == [][C16_Step]_vars

\* A start request is refused while the run of an accepted one is in a
\* phase, and no second run exists.
C16_Witness ==
  /\ Handled("POST /multi-agent/start-collaboration")
  /\ last.response.status_code # 200
  /\ BagCardinality(tasks) = 1
  /\ \E t \in BagToSet(tasks) : t.pc \in Sleeping

====
